---- MODULE Spec2Model ----
(***************************************************************************)
(* Telemetry normalisation pipeline of aether-wraith-isr-fleet:            *)
(*   telemetry/plugins/__init__.py   load_plugins  (plugin discovery)      *)
(*   telemetry/plugins/camera.py     parse         (camera transform)      *)
(*   telemetry/plugins/default_plugin.py parse     (fallback transform)    *)
(*   telemetry/parse_telemetry.py    parse_stream  (flatten and dispatch)  *)
(* Python strings are sequences of one-character strings, so that lower(), *)
(* split(), int(), startswith(), endswith() and slicing are computed.      *)
(***************************************************************************)
EXTENDS Integers, Sequences, FiniteSets, TLC

VARIABLES
    pkgDir,     \* os.listdir(pkg_dir): the entries of the plugin package
    scanIdx,    \* position of load_plugins' loop in that listing
    plugins,    \* the mapping load_plugins builds: unit name -> parse function
    inputDoc,   \* the parsed content of the input JSON file: its items
    docKind,    \* the JSON type of the input document's top level
    events,     \* parse_stream's local `events`
    idx,        \* position of the `for event in events` loop
    parser,     \* parse_stream's local `parser` for the current event
    pending,    \* pairs the current parser(sensor, data) has still to yield
    out,        \* the rows of the output CSV file (text fields)
    pc,         \* where parse_stream is
    tSensor,    \* a transform call: the sensor argument
    tData,      \* a transform call: the data argument
    tFn,        \* a transform call: the function called ("none" before)
    tOut,       \* a transform call: the pairs returned
    prevRun,    \* the output file as an earlier run of parse_stream left it
    outBefore,  \* the output file as it was when parse_stream was called
    template,   \* generate_mission: the loaded template, as the object is now
    tmplAtCall, \* generate_mission: the template when merge_config was called
    args,       \* generate_mission: the arguments of that merge_config call
    mission,    \* generate_mission: what merge_config returned
    outfile,    \* generate_mission: the file save_mission wrote
    doc,        \* generate_mission: the saved file read back
    mpc,        \* generate_mission: where the generator is
    merges,     \* generate_mission: merge_config calls on this template
    tasks,      \* orchestrator: the schedule load_schedule returned
    croniterOk, \* orchestrator: croniter is installed
    ready,      \* orchestrator: the event loop's queue of wrappers to step
    runEvents,  \* orchestrator: run_actions' list `events`
    invoked,    \* orchestrator: the tasks whose handler was called, in order
    now,        \* orchestrator: run_actions' `now`
    clock,      \* orchestrator: the time, in steps
    opc,        \* orchestrator: where run_actions is
    modelCache, \* model_manager: _model_cache, profile -> model object
    modelFiles, \* model_manager: the model file of each profile on disk
    loads,      \* model_manager: the objects joblib.load has built so far
    lastOp,     \* model_manager: the last operation
    lastCall,   \* model_manager: the last get_model call and its result
    logFile,    \* orchestrator: orchestration_log.json
    logStart,   \* orchestrator: that file before the first append_log
    passed,     \* orchestrator: the lists passed to append_log, in order
    logWrites,  \* orchestrator: how often append_log has written the file
    lastAppend, \* orchestrator: how the last append_log call ended
    schedFile,  \* add_task: tasks/schedule.yaml
    adds,       \* add_task: invocations so far
    lastAdd     \* add_task: the arguments of the last invocation, and its end

pipeVars == <<pkgDir, scanIdx, plugins, inputDoc, docKind, events, idx,
              parser, pending, out, pc>>

callVars == <<tSensor, tData, tFn, tOut>>

rerunVars == <<prevRun, outBefore>>

missionVars == <<template, tmplAtCall, args, mission,
                  outfile, doc, mpc, merges>>

orchVars == <<tasks, croniterOk, ready, runEvents, invoked, now, clock, opc>>

modelVars == <<modelCache, modelFiles, loads, lastOp, lastCall>>

logVars == <<logFile, logStart, passed, logWrites, lastAppend>>

schedVars == <<schedFile, adds, lastAdd>>

\* the state of the other programs of the repository
progVars == <<missionVars, orchVars, modelVars, logVars, schedVars>>

sideVars == <<rerunVars, progVars>>

\* what the steps of one program leave alone
restOfMission ==
    <<pipeVars, callVars, rerunVars, orchVars,
      modelVars, logVars, schedVars>>
restOfOrch ==
    <<pipeVars, callVars, rerunVars, missionVars,
      modelVars, logVars, schedVars>>
restOfModel ==
    <<pipeVars, callVars, rerunVars, missionVars,
      orchVars, logVars, schedVars>>
restOfLog ==
    <<pipeVars, callVars, rerunVars, missionVars,
      orchVars, modelVars, schedVars>>
restOfSched ==
    <<pipeVars, callVars, rerunVars, missionVars,
      orchVars, modelVars, logVars>>

vars == <<pipeVars, callVars, sideVars>>

----------------------------------------------------------------------------
(* Bounds of the model.                                                    *)

MaxEvents == 2      \* events in the input document
MaxStrLen == 4      \* length of the generated resolution strings
MaxDim    == 12     \* |w|, |h| of the generated "<w>x<h>" strings

----------------------------------------------------------------------------
(* Characters and strings.                                                 *)

UpperChars == <<"A","B","C","D","E","F","G","H","I","J","K","L","M",
                "N","O","P","Q","R","S","T","U","V","W","X","Y","Z">>
LowerChars == <<"a","b","c","d","e","f","g","h","i","j","k","l","m",
                "n","o","p","q","r","s","t","u","v","w","x","y","z">>
DigitChars == <<"0","1","2","3","4","5","6","7","8","9">>

IsDigit(c) == \E i \in 1..10 : DigitChars[i] = c
DigitVal(c) == (CHOOSE i \in 1..10 : DigitChars[i] = c) - 1
IsSpace(c) == c = " "

\* str.lower(), one character
LowerChar(c) ==
    IF \E i \in 1..26 : UpperChars[i] = c
    THEN LowerChars[CHOOSE i \in 1..26 : UpperChars[i] = c]
    ELSE c

\* str.lower()
Lower(s) == [i \in 1..Len(s) |-> LowerChar(s[i])]

\* str.startswith(p), str.endswith(p)
StartsWith(s, p) == Len(s) >= Len(p) /\ SubSeq(s, 1, Len(p)) = p
EndsWith(s, p) ==
    Len(s) >= Len(p) /\ SubSeq(s, Len(s) - Len(p) + 1, Len(s)) = p

\* s[:-k]
DropLast(s, k) == IF Len(s) <= k THEN <<>> ELSE SubSeq(s, 1, Len(s) - k)

\* str.split(c) with a one-character separator: every occurrence splits,
\* empty parts are kept, "" gives [""]
RECURSIVE Split(_, _)
Split(s, c) ==
    IF \A i \in 1..Len(s) : s[i] # c
    THEN <<s>>
    ELSE LET i == CHOOSE j \in 1..Len(s) :
                      s[j] = c /\ \A k \in 1..(j - 1) : s[k] # c
         IN  <<SubSeq(s, 1, i - 1)>> \o Split(SubSeq(s, i + 1, Len(s)), c)

\* str.strip()
RECURSIVE LStrip(_)
LStrip(s) == IF s # <<>> /\ IsSpace(Head(s)) THEN LStrip(Tail(s)) ELSE s
RECURSIVE RStrip(_)
RStrip(s) ==
    IF s # <<>> /\ IsSpace(s[Len(s)]) THEN RStrip(DropLast(s, 1)) ELSE s
Strip(s) == RStrip(LStrip(s))

\* the digits of an int() literal: digits, single underscores between them
DigitsOk(s) ==
    /\ s # <<>>
    /\ \A i \in 1..Len(s) : IsDigit(s[i]) \/ s[i] = "_"
    /\ IsDigit(s[1]) /\ IsDigit(s[Len(s)])
    /\ \A i \in 1..(Len(s) - 1) : ~(s[i] = "_" /\ s[i + 1] = "_")

RECURSIVE DigitsVal(_)
DigitsVal(s) ==
    IF s = <<>> THEN 0
    ELSE IF s[Len(s)] = "_" THEN DigitsVal(DropLast(s, 1))
    ELSE DigitsVal(DropLast(s, 1)) * 10 + DigitVal(s[Len(s)])

\* int(s) on a str: surrounding whitespace, an optional sign, decimal digits.
\* ok = FALSE is the ValueError.
PyInt(s) ==
    LET b    == Strip(s)
        sgn  == b # <<>> /\ Head(b) \in {"+", "-"}
        body == IF sgn THEN Tail(b) ELSE b
    IN  IF DigitsOk(body)
        THEN [ok  |-> TRUE,
              val |-> IF sgn /\ Head(b) = "-" THEN 0 - DigitsVal(body)
                      ELSE DigitsVal(body)]
        ELSE [ok |-> FALSE, val |-> 0]

\* str(n) of an int
RECURSIVE FmtNat(_)
FmtNat(n) ==
    IF n < 10 THEN <<DigitChars[n + 1]>>
    ELSE FmtNat(n \div 10) \o <<DigitChars[(n % 10) + 1]>>
Fmt(n) == IF n < 0 THEN <<"-">> \o FmtNat(0 - n) ELSE FmtNat(n)

----------------------------------------------------------------------------
(* JSON scalars: a tag, the text of a string, the number of an int or bool *)

Str(s)  == [t |-> "str",  s |-> s,    n |-> 0]
Num(n)  == [t |-> "int",  s |-> <<>>, n |-> n]
Bool(b) == [t |-> "bool", s |-> <<>>, n |-> IF b THEN 1 ELSE 0]
None    == [t |-> "none", s |-> <<>>, n |-> 0]

\* the text csv.writer writes for a field: str(value), None as ""
CsvField(v) ==
    CASE v.t = "str"  -> v.s
      [] v.t = "int"  -> Fmt(v.n)
      [] v.t = "bool" -> IF v.n = 1 THEN <<"T","r","u","e">>
                         ELSE <<"F","a","l","s","e">>
      [] v.t = "none" -> <<>>

----------------------------------------------------------------------------
(* String literals of the source and of the inputs.                        *)

S_timestamp == <<"t","i","m","e","s","t","a","m","p">>
S_node_id == <<"n","o","d","e","_","i","d">>
S_sensor == <<"s","e","n","s","o","r">>
S_key == <<"k","e","y">>
S_value == <<"v","a","l","u","e">>
S_resolution == <<"r","e","s","o","l","u","t","i","o","n">>
S_resolution_px == <<"r","e","s","o","l","u","t","i","o","n","_","p","x">>
S_battery == <<"b","a","t","t","e","r","y">>
S_a == <<"a">>
S_b == <<"b">>
S_two == <<"t","w","o">>
S_camera == <<"c","a","m","e","r","a">>
S_Camera == <<"C","a","m","e","r","a">>
S_camera_sp == <<" ","c","a","m","e","r","a">>
S_gps == <<"g","p","s">>
S_default_plugin == <<"d","e","f","a","u","l","t","_","p","l","u","g","i","n">>
S_util == <<"u","t","i","l">>
F_init == <<"_","_","i","n","i","t","_","_",".","p","y">>
F_pycache == <<"_","_","p","y","c","a","c","h","e","_","_">>
F_camera == <<"c","a","m","e","r","a",".","p","y">>
F_default_plugin == <<"d","e","f","a","u","l","t","_","p","l","u","g","i","n",".","p","y">>
F_util == <<"u","t","i","l",".","p","y">>
F_broken == <<"b","r","o","k","e","n",".","p","y">>
S_py == <<".","p","y">>
S_underscore == <<"_">>
S_ts1 == <<"2","0","2","4","-","0","1","-","0","1","T","0","0",":","0","0",":","0","0","Z">>
S_node1 == <<"N","O","D","E","-","1">>
S_ts2 == <<"2","0","2","4","-","0","1","-","0","2","T","0","0",":","0","0",":","0","0","Z">>
S_node2 == <<"N","O","D","E","-","2">>
S_640x480 == <<"6","4","0","x","4","8","0">>
S_1920X1080 == <<"1","9","2","0","X","1","0","8","0">>
S_not_a_resolution == <<"n","o","t","-","a","-","r","e","s","o","l","u","t","i","o","n">>

----------------------------------------------------------------------------
(* The transforms.  data is the dict's items in the dict's order, each     *)
(* <<key, value>>; a transform returns the pairs it yields, in order.      *)

\* a try block that splits without value.lower()
ResolutionPxNoLower(value) ==
    LET parts == Split(value, "x")
    IN  IF Len(parts) = 2 /\ PyInt(parts[1]).ok /\ PyInt(parts[2]).ok
        THEN [ok |-> TRUE, val |-> PyInt(parts[1]).val * PyInt(parts[2]).val]
        ELSE [ok |-> FALSE, val |-> 0]

\* camera.parse, the try block: the pixel count of "<width>x<height>", or
\* ok = FALSE when the unpacking or an int() raises
ResolutionPx(value) ==
    LET parts == Split(Lower(value), "x")
    IN  IF Len(parts) = 2 /\ PyInt(parts[1]).ok /\ PyInt(parts[2]).ok
        THEN [ok |-> TRUE, val |-> PyInt(parts[1]).val * PyInt(parts[2]).val]
        ELSE [ok |-> FALSE, val |-> 0]

\* a loop body whose except branch yields the lowered string
CameraEntryLowersFallback(key, value) ==
    IF key = S_resolution /\ value.t = "str"
    THEN IF ResolutionPx(value.s).ok
         THEN <<S_resolution_px, Num(ResolutionPx(value.s).val)>>
         ELSE <<S_resolution, Str(Lower(value.s))>>
    ELSE <<key, value>>

\* camera.parse, one iteration of its loop: the pair yielded for an entry
CameraEntry(key, value) ==
    IF key = S_resolution /\ value.t = "str"
    THEN IF ResolutionPx(value.s).ok
         THEN <<S_resolution_px, Num(ResolutionPx(value.s).val)>>
         ELSE <<S_resolution, value>>
    ELSE <<key, value>>

\* a camera.parse that reports a missing resolution as an entry of its own
CameraParseReportsMissing(sensor, data) ==
    [i \in 1..Len(data) |-> CameraEntry(data[i][1], data[i][2])]
    \o (IF \E i \in 1..Len(data) : data[i][1] = S_resolution THEN <<>>
        ELSE << <<S_resolution, None>> >>)

\* a camera.parse whose except branch yields nothing
CameraParseSkipsUnparsable(sensor, data) ==
    LET kept == SelectSeq(data, LAMBDA e :
                    ~(e[1] = S_resolution /\ e[2].t = "str"
                      /\ ~ResolutionPx(e[2].s).ok))
    IN  [i \in 1..Len(kept) |-> CameraEntry(kept[i][1], kept[i][2])]

\* camera.parse
CameraParse(sensor, data) ==
    [i \in 1..Len(data) |-> CameraEntry(data[i][1], data[i][2])]

\* a default parser that yields the items last to first
DefaultParseReversed(sensor, data) ==
    [i \in 1..Len(data) |->
        <<data[Len(data) + 1 - i][1], data[Len(data) + 1 - i][2]>>]

\* default_plugin.parse: data.items()
DefaultParse(sensor, data) ==
    [i \in 1..Len(data) |-> <<data[i][1], data[i][2]>>]

\* the function objects
CameraFn  == "camera.parse"
DefaultFn == "default_plugin.parse"
NoFn      == "none"

\* a call fn(sensor, data)
Apply(fn, sensor, data) ==
    IF fn = CameraFn THEN CameraParse(sensor, data)
    ELSE DefaultParse(sensor, data)

----------------------------------------------------------------------------
(* Plugin discovery: telemetry/plugins/__init__.py                         *)

\* import_module('.name'): the module's `parse` attribute (NoFn when it has
\* none), or raises.  camera and default_plugin are the shipped units; util
\* is a unit without a parse function; the import of any other unit raises.
ImportModule(name) ==
    CASE name = S_camera         -> [raises |-> FALSE, parse |-> CameraFn]
      [] name = S_default_plugin -> [raises |-> FALSE, parse |-> DefaultFn]
      [] name = S_util           -> [raises |-> FALSE, parse |-> NoFn]
      [] OTHER                   -> [raises |-> TRUE,  parse |-> NoFn]

\* the `continue` of the loop: not a plugin file
Skipped(filename) ==
    StartsWith(filename, S_underscore) \/ ~EndsWith(filename, S_py)

\* name = filename[:-3]
UnitName(filename) == DropLast(filename, 3)

\* plugins[name] = fn
Register(m, name, fn) ==
    [k \in (DOMAIN m) \cup {name} |-> IF k = name THEN fn ELSE m[k]]

\* plugins = {}
EmptyDict == [k \in {} |-> NoFn]

\* a lookup that falls back to the camera parser
LookupCameraFallback(m, sensor) ==
    IF sensor.t = "str" /\ sensor.s \in DOMAIN m THEN m[sensor.s]
    ELSE IF S_camera \in DOMAIN m THEN m[S_camera]
    ELSE DefaultFn

\* a lookup that normalises the sensor name: sensor.strip().lower()
LookupNormalised(m, sensor) ==
    IF sensor.t = "str" /\ Strip(Lower(sensor.s)) \in DOMAIN m
    THEN m[Strip(Lower(sensor.s))]
    ELSE DefaultFn

\* a lookup by plugins.setdefault(sensor, default_parse): the mapping after it
PluginsAfterSetdefault(m, sensor) ==
    IF sensor.t = "str" /\ sensor.s \notin DOMAIN m
    THEN [k \in (DOMAIN m) \cup {sensor.s} |->
             IF k = sensor.s THEN "default_plugin.parse" ELSE m[k]]
    ELSE m

\* plugins.get(...) reads the mapping: the mapping after the lookup
PluginsAfterLookup(m, sensor) == m

\* plugins.get(sensor, default_parse): sensor is the event's value, a key
\* only when it is a str equal to a registered name
Lookup(m, sensor) ==
    IF sensor.t = "str" /\ sensor.s \in DOMAIN m THEN m[sensor.s]
    ELSE DefaultFn

----------------------------------------------------------------------------
(* The output file.                                                        *)

\* writer.writerow(['timestamp', 'node_id', 'sensor', 'key', 'value'])
HeaderRow == <<S_timestamp, S_node_id, S_sensor, S_key, S_value>>

\* a row whose sensor column holds the normalised name
CsvRowNormalisedSensor(ts, node_id, sensor, key, value) ==
    <<CsvField(ts), CsvField(node_id), Strip(Lower(CsvField(sensor))), key,
      CsvField(value)>>

\* writer.writerow([ts, node_id, sensor, key, value]): the fields as text
CsvRow(ts, node_id, sensor, key, value) ==
    <<CsvField(ts), CsvField(node_id), CsvField(sensor), key, CsvField(value)>>

\* open(output_path, 'a'): the rows of an earlier run are kept
OpenForAppend(file) == file

\* open(output_path, 'w'): the file is created or truncated
OpenForWrite(file) == <<>>

\* a writer that skips a row the file already holds
WriteRowOnce(file, row) ==
    IF \E r \in 1..Len(file) : file[r] = row THEN file ELSE Append(file, row)

\* writer.writerow(row): the row goes to the end of the file
WriteRowTo(file, row) == Append(file, row)

\* event.get('data', {})
EventData(e) == IF e.hasData THEN e.data ELSE <<>>

----------------------------------------------------------------------------
(* Inputs.                                                                 *)

D_empty == <<>>
D_cam   == << <<S_resolution, Str(S_640x480)>>, <<S_battery, Num(87)>> >>
D_bad   == << <<S_resolution, Str(S_not_a_resolution)>> >>
D_ab    == << <<S_a, Num(1)>>, <<S_b, Str(S_two)>> >>
D_upper == << <<S_battery, Bool(TRUE)>>, <<S_resolution, Str(S_1920X1080)>> >>

\* an event object with all four keys, and one without `data`
Ev(sensor, data) ==
    [timestamp |-> Str(S_ts1), node_id |-> Str(S_node1), sensor |-> sensor,
     hasData |-> TRUE, data |-> data, obj |-> TRUE]
EvNoData(sensor) ==
    [timestamp |-> Str(S_ts1), node_id |-> Str(S_node1), sensor |-> sensor,
     hasData |-> FALSE, data |-> <<>>, obj |-> TRUE]
\* the event object {}
BareEvent ==
    [timestamp |-> None, node_id |-> None, sensor |-> None,
     hasData |-> FALSE, data |-> <<>>, obj |-> TRUE]

\* an event of another node at another time
EvOther ==
    [timestamp |-> Str(S_ts2), node_id |-> Str(S_node2),
     sensor |-> Str(S_Camera), hasData |-> TRUE, data |-> D_upper,
     obj |-> TRUE]
\* an item that is no object but a str: a key of a top-level object, a
\* character of a top-level string
StrItem ==
    [timestamp |-> None, node_id |-> None, sensor |-> None,
     hasData |-> FALSE, data |-> <<>>, obj |-> FALSE]

SensorNames == {S_camera, S_Camera, S_camera_sp, S_gps, S_default_plugin}

EventDomain ==
    {Ev(Str(s), d) : s \in SensorNames, d \in {D_empty, D_cam}}
    \cup {Ev(Str(S_camera), d) : d \in {D_bad, D_upper}}
    \cup {Ev(Str(s), D_ab) : s \in {S_gps, S_default_plugin}}
    \cup {EvNoData(Str(s)) : s \in {S_camera, S_gps}}
    \cup {BareEvent, EvOther}

\* the input documents: arrays of at most MaxEvents events
InputDocs == UNION {[1..n -> EventDomain] : n \in 0..MaxEvents}

\* documents whose top level is no array: the objects {} and one with two
\* keys, the strings "" and one of two characters, a number, null; what
\* iterating them gives
NonArrayDocs ==
    { <<"object", <<>>>>, <<"object", <<StrItem, StrItem>>>>,
      <<"string", <<>>>>, <<"string", <<StrItem, StrItem>>>>,
      <<"number", <<>>>>, <<"null", <<>>>> }

\* arrays whose second item is a string, not an event object
MixedDocs ==
    {<<e, StrItem>> : e \in {Ev(Str(S_camera), D_cam), Ev(Str(S_gps), D_empty)}}

\* every input document, with its top-level type
AllDocs ==
    {<<"array", d>> : d \in InputDocs \cup MixedDocs} \cup NonArrayDocs

\* `for event in events` can iterate the document
Iterable(kind) == kind \in {"array", "object", "string"}

\* listings of the plugin package: the shipped one, and ones with a cache
\* directory, a unit without parse, a unit whose import raises
PkgDirs ==
    { <<F_init, F_camera, F_default_plugin>>,
      <<F_default_plugin, F_pycache, F_camera, F_init>>,
      <<F_camera, F_util, F_default_plugin, F_init>>,
      <<F_camera, F_broken, F_default_plugin, F_init>> }

\* the output file before the run: absent, or left by an earlier run
PriorOutputs ==
    { <<>>,
      <<HeaderRow, CsvRow(Str(S_ts1), Str(S_node1), Str(S_gps), S_a, Num(1))>> }

\* the strings a transform call is tried on
Alphabet == {"1", "2", "x", "X", "-", "a"}
GenStrings == UNION {[1..n -> Alphabet] : n \in 0..MaxStrLen}
Dims == (0 - MaxDim)..MaxDim
FormCases == (Dims \X Dims) \cup {<<1920, 1080>>, <<640, 480>>}
FormStrings ==
    {Fmt(c[1]) \o <<sep>> \o Fmt(c[2]) : c \in FormCases, sep \in {"x", "X"}}
ExtraStrings ==
    { S_not_a_resolution,
      <<" ","1","x","2">>, <<"1","_","0","x","2">>, <<"+","1","x","2">>,
      <<"1","_","_","0","x","2">>, <<"1","x","2","x","3">>,
      <<"1","x","2","x","a">>, <<"0","1","x","2">>, <<"1"," ","x"," ","2">> }
CallValues ==
    {Str(s) : s \in GenStrings \cup FormStrings \cup ExtraStrings}
    \cup {Num(7), Num(0), Bool(TRUE), None}
CallData ==
    { << <<k, v>> >> : k \in {S_resolution, S_battery}, v \in CallValues }
    \cup {D_empty, D_cam, D_bad, D_ab, D_upper}

----------------------------------------------------------------------------
(* parse_stream: telemetry/parse_telemetry.py                              *)

\* parse_stream is not running
PipeIdle ==
    /\ pkgDir = <<>> /\ inputDoc = <<>> /\ docKind = "array" /\ out = <<>>
    /\ scanIdx = 1 /\ plugins = EmptyDict /\ events = <<>> /\ idx = 1
    /\ parser = NoFn /\ pending = <<>> /\ pc = "idle"

\* no transform is called on its own
CallIdle == tSensor = None /\ tData = <<>> /\ tFn = NoFn /\ tOut = <<>>

\* no earlier run; the output file is as the call finds it
RerunIdle == prevRun = [done |-> FALSE, rows |-> <<>>] /\ outBefore = out

\* a dict with no key
NoKeys == [k \in {} |-> None]

\* a mission dict: its scalar fields by key, and the nested mapping under
\* 'node_config_override' when that key is present
MissionDict(fields, nco) == [fields |-> fields, nco |-> nco]
NoMap == [present |-> FALSE, m |-> [k \in {} |-> 0]]
Map(m) == [present |-> TRUE, m |-> m]

\* a document without the 'mission' key, and {'mission': m}
NoMissionDoc == [has |-> FALSE, mission |-> MissionDict(NoKeys, NoMap)]
MissionDoc(m) == [has |-> TRUE, mission |-> m]

\* merge_config's arguments
Args(objective, zone, priority, overrides) ==
    [objective |-> objective, zone |-> zone, priority |-> priority,
     overrides |-> overrides]

\* no file written
NoFile == [exists |-> FALSE, has |-> FALSE, fields |-> NoKeys, nco |-> NoMap]

\* generate_mission is not running
MissionIdle ==
    /\ template = NoMissionDoc /\ tmplAtCall = NoMissionDoc
    /\ args = Args(None, None, None, NoMap)
    /\ mission = NoMissionDoc /\ outfile = NoFile /\ doc = NoMissionDoc
    /\ mpc = "idle" /\ merges = 0

\* the orchestrator is not running
OrchIdle ==
    /\ tasks = <<>> /\ croniterOk = FALSE /\ ready = <<>> /\ runEvents = <<>>
    /\ invoked = <<>> /\ now = 0 /\ clock = 0 /\ opc = "idle"

\* model_manager: the profiles asked for, no model (None), no file
Profiles == {"default", "alpha"}
NoModel == [id |-> 0, version |-> 0]
NoModelFile == [kind |-> "absent", version |-> 0]
EmptyCache == [p \in {} |-> NoModel]
NoCall == [profile |-> "", ret |-> NoModel, loaded |-> {}, statted |-> {}]

\* model_manager is imported and nothing was asked for
ModelIdle ==
    /\ modelCache = EmptyCache
    /\ modelFiles = [p \in Profiles |-> NoModelFile]
    /\ loads = 0 /\ lastOp = "idle" /\ lastCall = NoCall

\* orchestration_log.json: absent, or its content and what json.load makes
\* of it ("array", "object", or "corrupt" when it raises JSONDecodeError)
NoLogFile == [kind |-> "absent", entries |-> <<>>]
LogArray(entries) == [kind |-> "array", entries |-> entries]

\* append_log was not called
LogIdle ==
    /\ logFile = NoLogFile /\ logStart = NoLogFile /\ passed = <<>>
    /\ logWrites = 0 /\ lastAppend = "idle"

\* tasks/schedule.yaml: absent, empty, or a document with or without the
\* key 'tasks' and with or without another top-level key
NoSchedule == [kind |-> "absent", hasTasks |-> FALSE, extra |-> FALSE,
               tasks |-> <<>>]
NoAdd == [name |-> <<>>, cron |-> <<>>, action |-> <<>>, result |-> "none"]

\* add_task was not invoked
SchedIdle == schedFile = NoSchedule /\ adds = 0 /\ lastAdd = NoAdd

\* the other programs of the repository are not running
SideIdle ==
    /\ RerunIdle
    /\ MissionIdle
    /\ OrchIdle
    /\ ModelIdle
    /\ LogIdle
    /\ SchedIdle

Init ==
    /\ pkgDir \in PkgDirs
    /\ \E d \in AllDocs : docKind = d[1] /\ inputDoc = d[2]
    /\ out \in PriorOutputs
    /\ scanIdx = 1
    /\ plugins = EmptyDict
    /\ events = <<>>
    /\ idx = 1
    /\ parser = NoFn
    /\ pending = <<>>
    /\ pc = "start"
    /\ CallIdle
    /\ SideIdle

\* events = json.load(f); load_plugins() starts
ReadInput ==
    /\ pc = "start"
    /\ events' = inputDoc
    /\ pc' = "scan"
    /\ UNCHANGED <<pkgDir, scanIdx, plugins, inputDoc, docKind, idx,
                   parser, pending, out, callVars, sideVars>>

\* load_plugins: one iteration of `for filename in os.listdir(pkg_dir)`
ScanEntry ==
    /\ pc = "scan"
    /\ scanIdx <= Len(pkgDir)
    /\ LET filename == pkgDir[scanIdx]
           module   == ImportModule(UnitName(filename))
       IN  \/ /\ Skipped(filename)
              /\ scanIdx' = scanIdx + 1
              /\ UNCHANGED <<plugins, pc>>
           \/ /\ ~Skipped(filename)
              /\ module.raises
              /\ pc' = "raised"
              /\ UNCHANGED <<plugins, scanIdx>>
           \/ /\ ~Skipped(filename)
              /\ ~module.raises
              /\ module.parse # NoFn
              /\ plugins' = Register(plugins, UnitName(filename), module.parse)
              /\ scanIdx' = scanIdx + 1
              /\ UNCHANGED pc
           \/ /\ ~Skipped(filename)
              /\ ~module.raises
              /\ module.parse = NoFn
              /\ scanIdx' = scanIdx + 1
              /\ UNCHANGED <<plugins, pc>>
    /\ UNCHANGED <<pkgDir, inputDoc, docKind, events, idx, parser, pending, out,
                   callVars, sideVars>>

\* load_plugins returns the mapping
LoadReturn ==
    /\ pc = "scan"
    /\ scanIdx > Len(pkgDir)
    /\ pc' = "open"
    /\ UNCHANGED <<pkgDir, scanIdx, plugins, inputDoc, docKind, events,
                   idx, parser, pending, out, callVars, sideVars>>

\* the output file is opened for writing and the header row written
OpenOutput ==
    /\ pc = "open"
    /\ out' = WriteRowTo(OpenForWrite(out), HeaderRow)
    /\ idx' = 1
    /\ pc' = "loop"
    /\ UNCHANGED <<pkgDir, scanIdx, plugins, inputDoc, docKind, events, parser,
                   pending, callVars, sideVars>>

\* `for event in events`: the next event, its parser selected and called
NextEvent ==
    /\ pc = "loop"
    /\ Iterable(docKind)
    /\ idx <= Len(events)
    /\ events[idx].obj
    /\ LET event == events[idx]
           fn    == Lookup(plugins, event.sensor)
           pairs == Apply(fn, event.sensor, EventData(event))
       IN  /\ parser' = fn
           /\ plugins' = PluginsAfterLookup(plugins, event.sensor)
           /\ pending' = pairs
           /\ IF pairs = <<>>
              THEN idx' = idx + 1 /\ pc' = "loop"
              ELSE idx' = idx /\ pc' = "rows"
    /\ UNCHANGED <<pkgDir, scanIdx, inputDoc, docKind, events, out, callVars,
                   sideVars>>

\* `for key, value in parser(sensor, data)`: one pair, written as a row
WriteRow ==
    /\ pc = "rows"
    /\ pending # <<>>
    /\ LET event == events[idx]
           pair  == Head(pending)
       IN  out' = WriteRowTo(out, CsvRow(event.timestamp, event.node_id,
                                         event.sensor, pair[1], pair[2]))
    /\ pending' = Tail(pending)
    /\ IF Tail(pending) = <<>>
       THEN idx' = idx + 1 /\ pc' = "loop"
       ELSE idx' = idx /\ pc' = "rows"
    /\ UNCHANGED <<pkgDir, scanIdx, plugins, inputDoc, docKind, events, parser,
                   callVars, sideVars>>

\* the loop ends, the file is closed, parse_stream returns
Finish ==
    /\ pc = "loop"
    /\ Iterable(docKind)
    /\ idx > Len(events)
    /\ pc' = "done"
    /\ UNCHANGED <<pkgDir, scanIdx, plugins, inputDoc, docKind, events, idx,
                   parser, pending, out, callVars, sideVars>>

\* the loop raises inside the with block: `for event in events` on a number
\* or null (TypeError), or event.get on an item that is a str
\* (AttributeError); the file is closed with what was written
LoopRaise ==
    /\ pc = "loop"
    /\ \/ ~Iterable(docKind)
       \/ Iterable(docKind) /\ idx <= Len(events) /\ ~events[idx].obj
    /\ pc' = "aborted"
    /\ UNCHANGED <<pkgDir, scanIdx, plugins, inputDoc, docKind, events, idx,
                   parser, pending, out, callVars, sideVars>>

Next ==
    \/ ReadInput
    \/ ScanEntry
    \/ LoadReturn
    \/ OpenOutput
    \/ NextEvent
    \/ WriteRow
    \/ Finish
    \/ LoopRaise

Spec == Init /\ [][Next]_vars

----------------------------------------------------------------------------
(* A single call of a transform, on inputs of CallData.                    *)

CallInit ==
    /\ tSensor \in {Str(S_camera), Str(S_gps)}
    /\ tData \in CallData
    /\ tFn = NoFn
    /\ tOut = <<>>
    /\ PipeIdle
    /\ SideIdle

\* camera.parse(sensor, data), iterated to its end
CallCamera ==
    /\ tFn = NoFn
    /\ tFn' = CameraFn
    /\ tOut' = CameraParse(tSensor, tData)
    /\ UNCHANGED <<tSensor, tData, pipeVars, sideVars>>

\* default_plugin.parse(sensor, data), iterated to its end
CallDefault ==
    /\ tFn = NoFn
    /\ tFn' = DefaultFn
    /\ tOut' = DefaultParse(tSensor, tData)
    /\ UNCHANGED <<tSensor, tData, pipeVars, sideVars>>

CallNext == CallCamera \/ CallDefault

SpecCall == CallInit /\ [][CallNext]_vars

----------------------------------------------------------------------------
(* What the claims speak of.                                               *)

\* the output file is being, or has been, written by this run
Writing == pc \in {"loop", "rows", "done"}

\* the event the loop selected last (0 before the first)
LastSelected == IF pc = "rows" THEN idx ELSE idx - 1

\* the pairs the transform selected for event i yields
Yield(i) ==
    Apply(Lookup(plugins, events[i].sensor), events[i].sensor,
          EventData(events[i]))

\* the number of rows before those of event i: the header and the rows of
\* the events before it
RECURSIVE RowsBefore(_)
RowsBefore(i) == IF i = 1 THEN 1 ELSE RowsBefore(i - 1) + Len(Yield(i - 1))

\* the rows the file holds for event i, once event i is finished
RowsOf(i) == SubSeq(out, RowsBefore(i) + 1, RowsBefore(i) + Len(Yield(i)))

\* the rows of a sequence of pairs of event i
AsRows(i, pairs) ==
    [k \in 1..Len(pairs) |->
        CsvRow(events[i].timestamp, events[i].node_id, events[i].sensor,
               pairs[k][1], pairs[k][2])]

\* the sensor of event i is no key of the registry
Unregistered(i) ==
    ~(events[i].sensor.t = "str" /\ events[i].sensor.s \in DOMAIN plugins)

(* C1: fallback dispatch.  For every event whose sensor is not a key of the
   mapping load_plugins returned, the transform selected is the default one
   and the rows written for the event are the pairs default_plugin.parse
   yields for its data. *)
C1_FallbackDispatch ==
    Writing =>
        /\ \A i \in 1..(idx - 1) :
               Unregistered(i) =>
                   RowsOf(i) = AsRows(i, DefaultParse(events[i].sensor,
                                                      EventData(events[i])))
        /\ (LastSelected >= 1 /\ Unregistered(LastSelected))
               => parser = DefaultFn

C1_Witness ==
    /\ pc = "done"
    /\ \E i \in 1..Len(events) :
           /\ events[i].sensor = Str(S_gps)
           /\ EventData(events[i]) = D_cam
           /\ RowsOf(i) = AsRows(i, D_cam)

(* C2: order preservation.  The file holds the header, then all rows of the
   finished events in event order, each event's rows in the order its
   transform yields them, then the rows written so far for the current
   event; at the end it holds sum(k_i) data rows. *)
RECURSIVE FlatRows(_)
FlatRows(n) ==
    IF n = 0 THEN <<>> ELSE FlatRows(n - 1) \o AsRows(n, Yield(n))

RECURSIVE SumYield(_)
SumYield(n) == IF n = 0 THEN 0 ELSE SumYield(n - 1) + Len(Yield(n))

C2_OrderPreserved ==
    Writing =>
        /\ out = <<HeaderRow>> \o FlatRows(idx - 1)
                 \o (IF pc = "rows"
                     THEN AsRows(idx, SubSeq(Yield(idx), 1,
                                     Len(Yield(idx)) - Len(pending)))
                     ELSE <<>>)
        /\ pc = "done" => Len(out) = 1 + SumYield(Len(events))

C2_Witness ==
    /\ pc = "done"
    /\ Len(events) = 2
    /\ Yield(1) # <<>> /\ Yield(2) # <<>>
    /\ AsRows(1, Yield(1)) # AsRows(2, Yield(2))
    /\ Len(out) = 5

(* C3: empty data gives empty rows.  A step that takes an event (an object)
   whose data is the empty mapping, or absent, writes nothing and goes on to
   the next event, whatever the sensor is. *)
C3_EmptyDataNoRows ==
    [][(pc = "loop" /\ idx <= Len(events) /\ events[idx].obj
            /\ EventData(events[idx]) = <<>>)
           => (out' = out /\ idx' = idx + 1 /\ pc' = "loop")]_vars

C3_Witness ==
    /\ pc = "done"
    /\ Len(events) = 2
    /\ events[1] = Ev(Str(S_camera), D_empty)
    /\ events[2] = EvNoData(Str(S_gps))
    /\ out = <<HeaderRow>>

(* C7: output header.  The file written by parse_stream starts with the
   header row timestamp, node_id, sensor, key, value, also for an empty
   event list; no later row is the header, and every later row has the five
   fields of a data row of some input event. *)
C7_Header ==
    Writing =>
        /\ Len(out) >= 1
        /\ out[1] = <<S_timestamp, S_node_id, S_sensor, S_key, S_value>>
        /\ \A r \in 2..Len(out) :
               /\ out[r] # out[1]
               /\ Len(out[r]) = 5
               /\ \E i \in 1..Len(events) :
                      /\ out[r][1] = CsvField(events[i].timestamp)
                      /\ out[r][2] = CsvField(events[i].node_id)
                      /\ out[r][3] = CsvField(events[i].sensor)

C7_Witness ==
    /\ pc = "done"
    /\ events = <<>>
    /\ out = <<HeaderRow>>
    /\ pkgDir = <<F_init, F_camera, F_default_plugin>>

(* C8: exact-match sensor dispatch.  An event whose sensor equals a registry
   key gets that key's transform; one whose sensor differs from a key only
   in letter case or surrounding whitespace gets the default transform and
   the default transform's rows. *)
NearMiss(i) ==
    /\ events[i].sensor.t = "str"
    /\ events[i].sensor.s \notin DOMAIN plugins
    /\ Strip(Lower(events[i].sensor.s)) \in DOMAIN plugins

C8_ExactMatch ==
    Writing =>
        /\ LastSelected >= 1 =>
               LET s == events[LastSelected].sensor
               IN  /\ (s.t = "str" /\ s.s \in DOMAIN plugins)
                          => parser = plugins[s.s]
                   /\ NearMiss(LastSelected) => parser = DefaultFn
        /\ \A i \in 1..(idx - 1) :
               NearMiss(i) => RowsOf(i) = AsRows(i, EventData(events[i]))

C8_Witness ==
    /\ pc = "done"
    /\ Len(events) = 2
    /\ events[1] = Ev(Str(S_Camera), D_cam)
    /\ events[2] = Ev(Str(S_camera_sp), D_cam)
    /\ NearMiss(1) /\ NearMiss(2)
    /\ parser = DefaultFn
    /\ out[2][4] = S_resolution /\ out[4][4] = S_resolution

----------------------------------------------------------------------------
(* Claims about one transform call (SpecCall).                             *)

\* the strings "<w>x<h>" and "<w>X<h>" with the pixel count each stands for
FormTable ==
    {[s |-> Fmt(c[1]) \o <<sep>> \o Fmt(c[2]), px |-> c[1] * c[2]] :
        c \in FormCases, sep \in {"x", "X"}}

(* C4: camera resolution parse.  For integers w and h, the entry
   resolution = "<w>x<h>" (separator x or X) makes camera.parse yield, for
   that entry, the one pair (resolution_px, w*h); 1920x1080 gives 2073600
   and 640x480 gives 307200. *)
C4_ResolutionParse ==
    tFn = CameraFn =>
        /\ Len(tOut) = Len(tData)
        /\ \A i \in 1..Len(tData) : \A f \in FormTable :
               (tData[i][1] = S_resolution /\ tData[i][2] = Str(f.s))
                   => tOut[i] = <<S_resolution_px, Num(f.px)>>

C4_Witness ==
    /\ tFn = CameraFn
    /\ tData = << <<S_resolution, Str(S_1920X1080)>> >>
    /\ tOut = << <<S_resolution_px, Num(2073600)>> >>

\* the value is a string of two x-separated parts that int() accepts
ParsesAsResolution(v) ==
    /\ v.t = "str"
    /\ LET parts == Split(Lower(v.s), "x")
       IN  Len(parts) = 2 /\ PyInt(parts[1]).ok /\ PyInt(parts[2]).ok

(* C5: camera resolution fallback.  When the resolution value does not
   parse as "<width>x<height>" (not two parts, a part that is no integer,
   or no string at all), camera.parse yields for that entry the one pair
   (resolution, value) with the value unchanged. *)
C5_ResolutionFallback ==
    tFn = CameraFn =>
        /\ Len(tOut) = Len(tData)
        /\ \A i \in 1..Len(tData) :
               (tData[i][1] = S_resolution /\ ~ParsesAsResolution(tData[i][2]))
                   => tOut[i] = <<S_resolution, tData[i][2]>>

C5_Witness ==
    /\ tFn = CameraFn
    /\ tData = D_bad
    /\ tOut = << <<S_resolution, Str(S_not_a_resolution)>> >>

(* C6: default passthrough.  default_plugin.parse returns the entries of
   data, one pair per entry, keys and values unchanged, in the mapping's
   order; camera.parse passes every entry whose key is not resolution
   through unchanged. *)
C6_DefaultPassthrough ==
    /\ tFn = DefaultFn =>
           /\ Len(tOut) = Len(tData)
           /\ \A i \in 1..Len(tData) :
                  tOut[i][1] = tData[i][1] /\ tOut[i][2] = tData[i][2]
    /\ tFn = CameraFn =>
           \A i \in 1..Len(tData) :
               tData[i][1] # S_resolution => tOut[i] = tData[i]

C6_Witness ==
    /\ tFn = DefaultFn
    /\ tSensor = Str(S_gps)
    /\ tData = D_ab
    /\ tOut = << <<S_a, Num(1)>>, <<S_b, Str(S_two)>> >>

----------------------------------------------------------------------------
(* Claims about discovery.                                                 *)

(* C9: reserved fallback unit.  The mapping load_plugins builds never holds
   the fallback transform under a unit name: no key of the registry leads
   to default_plugin.parse. *)
C9_FallbackNotRegistered ==
    \A k \in DOMAIN plugins : plugins[k] # DefaultFn

\* the units of a listing that import and have a parse function
EligibleUnits(listing) ==
    {UnitName(listing[j]) : j \in
        {k \in 1..Len(listing) :
            /\ ~Skipped(listing[k])
            /\ ~ImportModule(UnitName(listing[k])).raises
            /\ ImportModule(UnitName(listing[k])).parse # NoFn}}

(* C10: discovery failure isolation.  A unit whose import raises, or that
   has no parse function, does not stop discovery: no exception leaves
   load_plugins, and the mapping it returns holds every other eligible
   unit. *)
C10_DiscoveryIsolated ==
    /\ pc # "raised"
    /\ pc \in {"open", "loop", "rows", "done"} =>
           DOMAIN plugins = EligibleUnits(pkgDir)

----------------------------------------------------------------------------
(* Further claims about parse_stream.                                      *)

(* C11: input-format error is fatal.  When the top level of the input
   document is no array (an object, a string, a number, null, the empty
   object and the empty string included), parse_stream does not complete
   normally. *)
C11_NonArrayFatal == docKind # "array" => pc # "done"

(* C12: verbatim identity columns.  In every data row written for an event
   the timestamp, node_id and sensor fields are the event's own values
   (the text of the value; the string itself when it is a string), also
   when the default transform was used or the transform renamed the key;
   key and value are the pair the transform yielded. *)
C12_IdentityColumns ==
    Writing =>
        \A i \in 1..(idx - 1) : \A r \in 1..Len(Yield(i)) :
            LET row == RowsOf(i)[r]
                e   == events[i]
            IN  /\ row[1] = CsvField(e.timestamp)
                /\ row[2] = CsvField(e.node_id)
                /\ row[3] = CsvField(e.sensor)
                /\ e.timestamp.t = "str" => row[1] = e.timestamp.s
                /\ e.node_id.t = "str" => row[2] = e.node_id.s
                /\ e.sensor.t = "str" => row[3] = e.sensor.s
                /\ row[4] = Yield(i)[r][1]
                /\ row[5] = CsvField(Yield(i)[r][2])

C12_Witness ==
    /\ pc = "done"
    /\ Len(events) = 2
    /\ events[1] = EvOther
    /\ events[2] = Ev(Str(S_camera), D_cam)
    /\ out[2][1] = S_ts2 /\ out[2][2] = S_node2 /\ out[2][3] = S_Camera
    /\ out[4][1] = S_ts1 /\ out[4][3] = S_camera
    /\ out[4][4] = S_resolution_px

(* C14: registry built once and read-only.  Once load_plugins has returned,
   discovery is complete, no step changes the mapping (no key added, removed
   or rebound) and discovery is not entered again in this invocation. *)
C14_RegistryReadOnly ==
    [][(pc \in {"open", "loop", "rows", "done", "aborted"})
           => (scanIdx > Len(pkgDir) /\ plugins' = plugins
               /\ pc' \notin {"start", "scan"})]_vars

C14_Witness ==
    /\ pc = "done"
    /\ Len(events) = 2
    /\ events[1].sensor = Str(S_gps) /\ events[2].sensor = Str(S_camera)
    /\ Len(out) = 5
    /\ DOMAIN plugins = {S_camera, S_default_plugin}

----------------------------------------------------------------------------
(* Two runs of parse_stream on the same input document.                    *)

\* listings that give the registry m and no unit of which raises
ListingsOf(m) ==
    {d \in PkgDirs :
        /\ EligibleUnits(d) = DOMAIN m
        /\ \A k \in 1..Len(d) :
               Skipped(d[k]) \/ ~ImportModule(UnitName(d[k])).raises}

\* parse_stream is called again with the same paths; the package may be
\* listed in another order
Rerun ==
    /\ pc = "done"
    /\ ~prevRun.done
    /\ prevRun' = [done |-> TRUE, rows |-> out]
    /\ outBefore' = out
    /\ pkgDir' \in ListingsOf(plugins)
    /\ scanIdx' = 1
    /\ plugins' = EmptyDict
    /\ events' = <<>>
    /\ idx' = 1
    /\ parser' = NoFn
    /\ pending' = <<>>
    /\ pc' = "start"
    /\ UNCHANGED <<inputDoc, docKind, out, callVars, progVars>>

NextRerun == Next \/ Rerun

SpecRerun == Init /\ [][NextRerun]_vars

(* C15: determinism.  A second run over the same event sequence with the
   same registry leaves the same output rows as the first, in the same
   order. *)
C15_Deterministic ==
    (prevRun.done /\ pc = "done") => out = prevRun.rows

C15_Witness ==
    /\ prevRun.done
    /\ pc = "done"
    /\ Len(events) = 2
    /\ Len(out) = 5
    /\ out = prevRun.rows

----------------------------------------------------------------------------
(* A further claim about one transform call (SpecCall).                    *)

\* a (key, value) pair: the key a string, the value a JSON scalar
WellFormedPair(p) ==
    /\ Len(p) = 2
    /\ DOMAIN p[1] = 1..Len(p[1])
    /\ p[2].t \in {"str", "int", "bool", "none"}
    /\ p[2].t # "str" => p[2].s = <<>>

(* C13: transform totality.  On every sensor name and every data mapping
   with scalar values, camera.parse and default_plugin.parse return a finite
   sequence of well-formed (key, value) pairs; camera.parse yields exactly
   one pair per entry of data. *)
C13_TransformTotal ==
    tFn # NoFn =>
        /\ \A k \in 1..Len(tOut) : WellFormedPair(tOut[k])
        /\ Len(tOut) = Len(tData)

C13_Witness ==
    /\ tFn = CameraFn
    /\ tData = D_upper
    /\ tOut = << <<S_battery, Bool(TRUE)>>,
                 <<S_resolution_px, Num(2073600)>> >>

----------------------------------------------------------------------------
(* generate_mission.py: merge_config, save_mission, and the file read back *)

MaxMerges == 2      \* merge_config calls on one loaded template

S_test_objective ==
    <<"t","e","s","t"," ","o","b","j","e","c","t","i","v","e">>
S_TEST_ZONE == <<"T","E","S","T","-","Z","O","N","E">>
S_one == <<"1">>
S_survey == <<"s","u","r","v","e","y">>
S_GEO_23 == <<"G","E","O","-","2","3">>
S_null == <<"n","u","l","l">>
S_true == <<"t","r","u","e">>
S_false == <<"f","a","l","s","e">>
S_yes == <<"y","e","s">>
S_no == <<"n","o">>
S_on == <<"o","n">>
S_off == <<"o","f","f">>
S_tilde == <<"~">>

\* dict.get(key): the value, None when the key is absent
Get(d, k) == IF k \in DOMAIN d THEN d[k] ELSE None

\* d[key] = value
Put(d, k, v) == [x \in (DOMAIN d) \cup {k} |-> IF x = k THEN v ELSE d[x]]

\* d.update(o): o's entries over d's
Update(d, o) ==
    [x \in (DOMAIN d) \cup (DOMAIN o) |-> IF x \in DOMAIN o THEN o[x] ELSE d[x]]

\* the truth value of an argument: None, "" and {} are false
Truthy(v) == v.t = "str" /\ v.s # <<>>
TruthyMap(o) == o.present /\ DOMAIN o.m # {}

\* a merge that tests the priority's truth value
MergeConfigTruthyPriority(t, objective, zone, priority, overrides) ==
    LET base == IF t.has THEN t.mission ELSE MissionDict(NoKeys, NoMap)
        f1 == IF Truthy(objective)
              THEN Put(base.fields, "objective", objective) ELSE base.fields
        f2 == IF Truthy(zone) THEN Put(f1, "target_zone", zone) ELSE f1
        f3 == IF priority.t = "int" /\ priority.n # 0
              THEN Put(f2, "priority_tier", priority) ELSE f2
        nco == IF TruthyMap(overrides)
               THEN Map(Update(base.nco.m, overrides.m)) ELSE base.nco
    IN  MissionDoc(MissionDict(f3, nco))

\* merge_config(template, objective, zone, priority, overrides): the result
MergeConfig(t, objective, zone, priority, overrides) ==
    LET base == IF t.has THEN t.mission ELSE MissionDict(NoKeys, NoMap)
        f1 == IF Truthy(objective)
              THEN Put(base.fields, "objective", objective) ELSE base.fields
        f2 == IF Truthy(zone) THEN Put(f1, "target_zone", zone) ELSE f1
        f3 == IF priority # None
              THEN Put(f2, "priority_tier", priority) ELSE f2
        nco == IF TruthyMap(overrides)
               THEN Map(Update(base.nco.m, overrides.m)) ELSE base.nco
    IN  MissionDoc(MissionDict(f3, nco))

\* the template object after the call: template['mission'].copy() is shallow,
\* so node_override.update(overrides) updates the template's own nested dict
TemplateAfterMerge(t, overrides) ==
    IF t.has /\ t.mission.nco.present /\ TruthyMap(overrides)
    THEN [t EXCEPT !.mission.nco = Map(Update(t.mission.nco.m, overrides.m))]
    ELSE t

\* YAML: what a plain (unquoted) scalar resolves to
IsUpper(c) == \E i \in 1..26 : UpperChars[i] = c
IsLower(c) == \E i \in 1..26 : LowerChars[i] = c
WordCase(s) ==
    \/ \A i \in 1..Len(s) : IsLower(s[i])
    \/ \A i \in 1..Len(s) : IsUpper(s[i])
    \/ s # <<>> /\ IsUpper(s[1]) /\ \A i \in 2..Len(s) : IsLower(s[i])
YamlNull(s) == s = <<>> \/ s = S_tilde \/ (Lower(s) = S_null /\ WordCase(s))
YamlTrue(s) == Lower(s) \in {S_true, S_yes, S_on} /\ WordCase(s)
YamlFalse(s) == Lower(s) \in {S_false, S_no, S_off} /\ WordCase(s)
YamlInt(s) ==
    LET sgn  == s # <<>> /\ Head(s) \in {"+", "-"}
        body == IF sgn THEN Tail(s) ELSE s
    IN  IF body # <<>> /\ (\A i \in 1..Len(body) : IsDigit(body[i]))
           /\ (Len(body) = 1 \/ body[1] # "0")
        THEN [ok  |-> TRUE,
              val |-> IF sgn /\ Head(s) = "-" THEN 0 - DigitsVal(body)
                      ELSE DigitsVal(body)]
        ELSE [ok |-> FALSE, val |-> 0]
YamlResolve(s) ==
    IF YamlNull(s) THEN None
    ELSE IF YamlTrue(s) THEN Bool(TRUE)
    ELSE IF YamlFalse(s) THEN Bool(FALSE)
    ELSE IF YamlInt(s).ok THEN Num(YamlInt(s).val)
    ELSE Str(s)

\* characters a plain scalar does not start with
YamlIndicators ==
    {"*", "&", "!", "|", ">", "%", "@", "#", "[", "]", "{", "}", ","}

\* yaml.safe_dump of a scalar: a string is quoted when the plain text would
\* resolve to another type, starts with an indicator or has a space at an end
YamlDumpScalar(v) ==
    CASE v.t = "str"  ->
             [quoted |-> \/ YamlResolve(v.s).t # "str"
                         \/ v.s[1] \in YamlIndicators
                         \/ IsSpace(v.s[1]) \/ IsSpace(v.s[Len(v.s)]),
              text |-> v.s]
      [] v.t = "int"  -> [quoted |-> FALSE, text |-> Fmt(v.n)]
      [] v.t = "bool" -> [quoted |-> FALSE,
                          text |-> IF v.n = 1 THEN S_true ELSE S_false]
      [] v.t = "none" -> [quoted |-> FALSE, text |-> S_null]

\* yaml.safe_load of a scalar
YamlLoadScalar(d) == IF d.quoted THEN Str(d.text) ELSE YamlResolve(d.text)

\* yaml.safe_dump(mission, f, sort_keys=False): the file
YamlDump(m) ==
    [exists |-> TRUE,
     has    |-> m.has,
     fields |-> [k \in DOMAIN m.mission.fields |->
                    YamlDumpScalar(m.mission.fields[k])],
     nco    |-> [present |-> m.mission.nco.present,
                 m |-> [k \in DOMAIN m.mission.nco.m |->
                           Fmt(m.mission.nco.m[k])]]]

\* yaml.safe_load(f)
YamlLoad(f) ==
    [has     |-> f.has,
     mission |-> MissionDict(
                     [k \in DOMAIN f.fields |-> YamlLoadScalar(f.fields[k])],
                     [present |-> f.nco.present,
                      m |-> [k \in DOMAIN f.nco.m |->
                                YamlInt(f.nco.m[k]).val]])]

\* templates: the loaded missions/mission_template.yaml
TemplateFields ==
    [k \in {"mission_id", "objective", "target_zone", "priority_tier"} |->
        CASE k = "mission_id"    -> Str(S_a)
          [] k = "objective"     -> Str(S_survey)
          [] k = "target_zone"   -> Str(S_GEO_23)
          [] k = "priority_tier" -> Num(3)]
AltMap(n) == [k \in {"alt"} |-> n]
SpeedMap(n) == [k \in {"speed"} |-> n]
Templates ==
    { MissionDoc(MissionDict(TemplateFields, Map(AltMap(100)))),
      MissionDoc(MissionDict(TemplateFields, NoMap)),
      MissionDoc(MissionDict([k \in {"mission_id"} |-> Str(S_one)], NoMap)),
      NoMissionDoc }

\* the arguments of merge_config
ObjectiveArgs == {None, Str(<<>>), Str(S_test_objective), Str(S_one)}
ZoneArgs      == {None, Str(S_TEST_ZONE)}
PriorityArgs  == {None, Num(0), Num(1)}
OverrideArgs  == {NoMap, Map([k \in {} |-> 0]), Map(AltMap(200)),
                  Map(SpeedMap(5))}

MissionInit ==
    /\ PipeIdle
    /\ CallIdle
    /\ SideIdle

\* template = load_template()
LoadTemplate ==
    /\ mpc = "idle"
    /\ template' \in Templates
    /\ mpc' = "loaded"
    /\ UNCHANGED <<tmplAtCall, args, mission, outfile, doc, merges,
                   restOfMission>>

\* mission = merge_config(template, objective, zone, priority, overrides)
Merge ==
    /\ mpc \in {"loaded", "read"}
    /\ merges < MaxMerges
    /\ \E o \in ObjectiveArgs, z \in ZoneArgs, p \in PriorityArgs,
          v \in OverrideArgs :
          /\ args' = Args(o, z, p, v)
          /\ mission' = MergeConfig(template, o, z, p, v)
          /\ template' = TemplateAfterMerge(template, v)
    /\ tmplAtCall' = template
    /\ merges' = merges + 1
    /\ mpc' = "merged"
    /\ UNCHANGED <<outfile, doc, restOfMission>>

\* outfile = save_mission(mission)
Save ==
    /\ mpc = "merged"
    /\ outfile' = YamlDump(mission)
    /\ mpc' = "saved"
    /\ UNCHANGED <<template, tmplAtCall, args, mission, doc, merges,
                   restOfMission>>

\* doc = yaml.safe_load(f) on the file at outfile
ReadBack ==
    /\ mpc = "saved"
    /\ doc' = YamlLoad(outfile)
    /\ mpc' = "read"
    /\ UNCHANGED <<template, tmplAtCall, args, mission, outfile, merges,
                   restOfMission>>

MissionNext == LoadTemplate \/ Merge \/ Save \/ ReadBack

SpecMission == MissionInit /\ [][MissionNext]_vars

\* the mission the call started from: template.get('mission', {})
BaseMission ==
    IF tmplAtCall.has THEN tmplAtCall.mission ELSE MissionDict(NoKeys, NoMap)

\* the read-back field k is the supplied value, or else the template's
FieldRoundTrip(k, arg, supplied) ==
    LET d == doc.mission.fields
        b == BaseMission.fields
    IN  IF supplied THEN k \in DOMAIN d /\ d[k] = arg
        ELSE (k \in DOMAIN d <=> k \in DOMAIN b) /\ Get(d, k) = Get(b, k)

ArgFields == {"objective", "target_zone", "priority_tier"}

\* the three argument fields, and the template's other scalar fields
ScalarsRoundTrip ==
    /\ doc.has
    /\ FieldRoundTrip("objective", args.objective, Truthy(args.objective))
    /\ FieldRoundTrip("target_zone", args.zone, Truthy(args.zone))
    /\ FieldRoundTrip("priority_tier", args.priority, args.priority # None)
    /\ DOMAIN doc.mission.fields \ ArgFields
           = DOMAIN BaseMission.fields \ ArgFields
    /\ \A k \in DOMAIN BaseMission.fields \ ArgFields :
           doc.mission.fields[k] = BaseMission.fields[k]

(* C16 as stated: mission override round-trip.  The mission saved by
   save_mission and read back has objective, target_zone and priority_tier
   equal to the supplied values, an argument that is None leaves the
   template's value, and every other template field of mission, the
   node_config_override mapping included, is as in the template. *)
C16_OtherFieldsUnchanged ==
    mpc = "read" =>
        /\ ScalarsRoundTrip
        /\ doc.mission.nco = BaseMission.nco

(* C16, amended: mission override round-trip.  As above, except that
   node_config_override is as in the template only when no (or an empty)
   overrides mapping is supplied; with non-empty overrides it is the
   template's mapping (empty when absent) updated with the overrides. *)
C16_RoundTrip ==
    mpc = "read" =>
        /\ ScalarsRoundTrip
        /\ doc.mission.nco =
               IF TruthyMap(args.overrides)
               THEN Map(Update(BaseMission.nco.m, args.overrides.m))
               ELSE BaseMission.nco

C16_Witness ==
    /\ mpc = "read"
    /\ args = Args(Str(S_one), Str(S_TEST_ZONE), Num(0), Map(SpeedMap(5)))
    /\ tmplAtCall = MissionDoc(MissionDict(TemplateFields, Map(AltMap(100))))
    /\ doc.mission.fields["objective"] = Str(S_one)
    /\ doc.mission.fields["target_zone"] = Str(S_TEST_ZONE)
    /\ doc.mission.fields["priority_tier"] = Num(0)
    /\ doc.mission.fields["mission_id"] = Str(S_a)
    /\ doc.mission.nco = Map([k \in {"alt", "speed"} |->
                                 IF k = "alt" THEN 100 ELSE 5])

----------------------------------------------------------------------------
(* orchestrator.py: should_run and run_actions                             *)

MaxTasks == 3       \* tasks in the schedule

\* task_def.get(key) of an absent key
Absent == "<absent>"

\* cron expressions
S_every_minute == <<"*"," ","*"," ","*"," ","*"," ","*">>
S_hourly == <<"0"," ","*"," ","*"," ","*"," ","*">>
S_bad_cron == <<"b","a","d">>
NoCron == <<"<","a","b","s","e","n","t",">">>

\* croniter(cron_expr, ref_time) accepts five or six fields of digits and
\* the characters * / , -
CronChars == {"*", "/", ",", "-"}
CronValid(c) ==
    LET fields == Split(c, " ")
    IN  /\ Len(fields) \in {5, 6}
        /\ \A k \in 1..Len(fields) :
               /\ fields[k] # <<>>
               /\ \A j \in 1..Len(fields[k]) :
                      IsDigit(fields[k][j]) \/ fields[k][j] \in CronChars

\* a should_run that skips a task whose cron expression croniter rejects
ShouldRunSkipsInvalid(installed, cron_expr, due) ==
    IF ~installed \/ cron_expr = NoCron \/ cron_expr = <<>> THEN TRUE
    ELSE IF ~CronValid(cron_expr) THEN FALSE
    ELSE due

\* should_run(cron_expr, ref_time); due is prev_time <= ref_time < next_time
ShouldRun(installed, cron_expr, due) ==
    IF ~installed \/ cron_expr = NoCron \/ cron_expr = <<>> THEN TRUE
    ELSE IF ~CronValid(cron_expr) THEN TRUE
    ELSE due

\* ACTION_MAP's keys
ACTION_MAP == {"push_telemetry", "replan_isr_sweep"}

\* a schedule entry; due tells whether ref_time lies in the cron window
Task(name, cron, action, due) ==
    [name |-> name, cron |-> cron, action |-> action, due |-> due]

TaskCatalogue ==
    { Task("t1", S_every_minute, "push_telemetry", TRUE),
      Task("t2", S_hourly, "replan_isr_sweep", FALSE),
      Task("t3", <<>>, "push_telemetry", FALSE),
      Task("t4", S_bad_cron, "replan_isr_sweep", FALSE),
      Task("t1", NoCron, "replan_isr_sweep", FALSE),
      Task("t5", S_every_minute, Absent, TRUE),
      Task("t6", <<>>, "", FALSE),
      Task("t7", S_every_minute, "reboot", TRUE) }

Schedules ==
    UNION {[1..n -> TaskCatalogue] : n \in 0..MaxTasks}

\* the event record of a task
Record(task_def, t) ==
    [task |-> task_def.name, action |-> task_def.action, timestamp |-> t]

\* an event loop that steps the wrapper made ready last
PickNewest(q) == Len(q)

\* the event loop steps the callbacks of its ready queue first in, first
\* out: the position of the wrapper it steps next
Pick(q) == 1

\* the queue without the entry at position k
Without(q, k) == SubSeq(q, 1, k - 1) \o SubSeq(q, k + 1, Len(q))

\* tasks = load_schedule(), with croniter imported or not
StartOrchestrator ==
    /\ opc = "idle"
    /\ tasks' \in Schedules
    /\ croniterOk' \in BOOLEAN
    /\ clock' = 1
    /\ opc' = "loaded"
    /\ UNCHANGED <<ready, runEvents, invoked, now, restOfOrch>>

\* run_actions up to asyncio.gather: every wrapper is scheduled, in order
RunActions ==
    /\ opc = "loaded"
    /\ runEvents' = <<>>
    /\ now' = clock
    /\ ready' = [i \in 1..Len(tasks) |-> [task |-> i, at |-> "start"]]
    /\ opc' = "running"
    /\ UNCHANGED <<tasks, croniterOk, invoked, clock, restOfOrch>>

\* the event loop steps the next wrapper of its queue from its start: it
\* returns early, or calls the handler, which suspends at asyncio.sleep(0)
WrapperStart ==
    /\ opc = "running"
    /\ ready # <<>>
    /\ ready[Pick(ready)].at = "start"
    /\ LET i        == ready[Pick(ready)].task
           rest     == Without(ready, Pick(ready))
           task_def == tasks[i]
       IN  IF \/ task_def.action \in {Absent, ""}
              \/ task_def.action \notin ACTION_MAP
              \/ ~ShouldRun(croniterOk, task_def.cron, task_def.due)
           THEN /\ ready' = rest
                /\ invoked' = invoked
           ELSE /\ ready' = Append(rest, [task |-> i, at |-> "await"])
                /\ invoked' = Append(invoked, i)
    /\ clock' = clock + 1
    /\ UNCHANGED <<tasks, croniterOk, runEvents, now, opc, restOfOrch>>

\* the event loop resumes a suspended wrapper: the handler returns and the
\* wrapper appends its record
WrapperResume ==
    /\ opc = "running"
    /\ ready # <<>>
    /\ ready[Pick(ready)].at = "await"
    /\ runEvents' =
           Append(runEvents, Record(tasks[ready[Pick(ready)].task], now))
    /\ ready' = Without(ready, Pick(ready))
    /\ clock' = clock + 1
    /\ UNCHANGED <<tasks, croniterOk, invoked, now, opc, restOfOrch>>

\* gather is done: return events
ReturnEvents ==
    /\ opc = "running"
    /\ ready = <<>>
    /\ opc' = "returned"
    /\ UNCHANGED <<tasks, croniterOk, ready, runEvents, invoked, now, clock,
                   restOfOrch>>

OrchInit ==
    /\ PipeIdle
    /\ CallIdle
    /\ SideIdle

OrchNext ==
    StartOrchestrator \/ RunActions \/ WrapperStart \/ WrapperResume
        \/ ReturnEvents

SpecOrch == OrchInit /\ [][OrchNext]_vars

\* how often x occurs in the sequence s
Times(s, x) == Cardinality({k \in 1..Len(s) : s[k] = x})

\* the scheduler's base case for task i: no croniter, or a cron expression
\* that is absent, empty or invalid
BaseCase(i) ==
    \/ ~croniterOk
    \/ tasks[i].cron \in {NoCron, <<>>}
    \/ ~CronValid(tasks[i].cron)

(* C17: unconditional scheduling in the base case.  When run_actions has
   returned, the handler of every task whose action is a key of ACTION_MAP
   and that is in the base case (no croniter, or an empty or invalid cron
   expression) was invoked exactly once, no handler was invoked for a task
   whose action is missing or no key of ACTION_MAP, and the list holds
   exactly one record {task, action, timestamp} per invoked handler (none
   when none was invoked). *)
C17_BaseCaseRunsAll ==
    opc = "returned" =>
        /\ \A i \in 1..Len(tasks) :
               /\ (tasks[i].action \in ACTION_MAP /\ BaseCase(i))
                      => Times(invoked, i) = 1
               /\ tasks[i].action \notin ACTION_MAP => Times(invoked, i) = 0
        /\ Len(runEvents) = Len(invoked)
        /\ \A i \in 1..Len(tasks) :
               Times(runEvents, Record(tasks[i], now))
                   = Cardinality({k \in 1..Len(invoked) :
                         Record(tasks[invoked[k]], now)
                             = Record(tasks[i], now)})

C17_Witness ==
    /\ opc = "returned"
    /\ croniterOk
    /\ Len(tasks) = 3
    /\ tasks[1] = Task("t4", S_bad_cron, "replan_isr_sweep", FALSE)
    /\ tasks[2] = Task("t7", S_every_minute, "reboot", TRUE)
    /\ tasks[3] = Task("t3", <<>>, "push_telemetry", FALSE)
    /\ Len(invoked) = 2
    /\ Len(runEvents) = 2

----------------------------------------------------------------------------
(* agents/model_manager.py: get_model and reload_models                    *)

MaxLoads == 3       \* objects joblib.load builds
MaxVersion == 2     \* contents a model file takes

ModelFile(v) == [kind |-> "ok", version |-> v]
CorruptFile == [kind |-> "corrupt", version |-> 0]
FileStates ==
    {NoModelFile, CorruptFile} \cup {ModelFile(v) : v \in 1..MaxVersion}

\* the outcome of a get_model call: the value returned, the cache after it,
\* the files joblib.load read and the paths os.path.exists looked at
Outcome(ret, c, loaded, statted, n) ==
    [ret |-> ret, cache |-> c, loaded |-> loaded, statted |-> statted,
     loads |-> n]

\* a get_model that does not look into the cache
RECURSIVE GetModelAlwaysLoads(_, _, _, _)
GetModelAlwaysLoads(c, files, profile, n) ==
    IF files[profile].kind = "absent"
    THEN IF profile # "default"
         THEN LET r == GetModelAlwaysLoads(c, files, "default", n)
              IN  Outcome(r.ret, r.cache, r.loaded,
                          r.statted \cup {profile}, r.loads)
         ELSE Outcome(NoModel, c, {}, {profile}, n)
    ELSE IF files[profile].kind = "ok"
    THEN LET model == [id |-> n + 1, version |-> files[profile].version]
         IN  Outcome(model,
                     [p \in (DOMAIN c) \cup {profile} |->
                         IF p = profile THEN model ELSE c[p]],
                     {profile}, {profile}, n + 1)
    ELSE Outcome(NoModel, c, {profile}, {profile}, n)

\* get_model(profile), with n objects loaded before the call
RECURSIVE GetModel(_, _, _, _)
GetModel(c, files, profile, n) ==
    IF profile \in DOMAIN c
    THEN Outcome(c[profile], c, {}, {}, n)
    ELSE IF files[profile].kind = "absent"
    THEN IF profile # "default"
         THEN LET r == GetModel(c, files, "default", n)
              IN  Outcome(r.ret, r.cache, r.loaded,
                          r.statted \cup {profile}, r.loads)
         ELSE Outcome(NoModel, c, {}, {profile}, n)
    ELSE IF files[profile].kind = "ok"
    THEN LET model == [id |-> n + 1, version |-> files[profile].version]
         IN  Outcome(model,
                     [p \in (DOMAIN c) \cup {profile} |->
                         IF p = profile THEN model ELSE c[p]],
                     {profile}, {profile}, n + 1)
    ELSE Outcome(NoModel, c, {profile}, {profile}, n)

\* a caller calls get_model(profile)
CallGetModel ==
    \E profile \in Profiles :
        LET r == GetModel(modelCache, modelFiles, profile, loads)
        IN  /\ r.loads <= MaxLoads
            /\ modelCache' = r.cache
            /\ loads' = r.loads
            /\ lastCall' = [profile |-> profile, ret |-> r.ret,
                            loaded |-> r.loaded, statted |-> r.statted]
            /\ lastOp' = "get"
            /\ UNCHANGED <<modelFiles, restOfModel>>

\* reload_models()
ReloadModels ==
    /\ modelCache' = EmptyCache
    /\ lastOp' = "reload"
    /\ UNCHANGED <<modelFiles, loads, lastCall, restOfModel>>

\* somebody writes, replaces, damages or removes a model file
WriteModelFile ==
    \E profile \in Profiles, f \in FileStates :
        /\ f # modelFiles[profile]
        /\ modelFiles' = [modelFiles EXCEPT ![profile] = f]
        /\ lastOp' = "write"
        /\ UNCHANGED <<modelCache, loads, lastCall, restOfModel>>

ModelInit ==
    /\ PipeIdle
    /\ CallIdle
    /\ SideIdle

ModelNext == CallGetModel \/ ReloadModels \/ WriteModelFile

SpecModel == ModelInit /\ [][ModelNext]_vars

\* the call of this step found its profile in the cache
CacheHit == lastCall'.profile \in DOMAIN modelCache

\* what get_model('default') returns in the state before the step
DefaultReturn ==
    IF "default" \in DOMAIN modelCache THEN modelCache["default"]
    ELSE IF modelFiles["default"].kind = "ok"
    THEN [id |-> loads + 1, version |-> modelFiles["default"].version]
    ELSE NoModel

(* C18: model cache and reload.  A get_model(profile) call whose profile is
   cached returns the cached object, reads and looks at no file and leaves
   the cache as it is; reload_models() empties the cache; a call whose
   profile is not cached and has a loadable file loads it from disk, returns
   the new object and caches it; one whose profile is not cached and has no
   file returns what get_model('default') returns, None for 'default'
   itself; a load that fails returns None and caches nothing. *)
C18_CacheAndReload ==
    [][/\ lastOp' = "reload" => modelCache' = EmptyCache
       /\ lastOp' = "get" =>
            LET p == lastCall'.profile
                r == lastCall'.ret
            IN  /\ CacheHit =>
                       /\ r = modelCache[p]
                       /\ lastCall'.loaded = {} /\ lastCall'.statted = {}
                       /\ modelCache' = modelCache
                /\ (~CacheHit /\ modelFiles[p].kind = "ok") =>
                       /\ r = [id |-> loads + 1,
                               version |-> modelFiles[p].version]
                       /\ p \in lastCall'.loaded
                       /\ p \in DOMAIN modelCache' /\ modelCache'[p] = r
                /\ (~CacheHit /\ modelFiles[p].kind = "absent") =>
                       r = IF p = "default" THEN NoModel ELSE DefaultReturn
                /\ \A q \in Profiles :
                       (q \notin DOMAIN modelCache
                            /\ modelFiles[q].kind = "corrupt")
                           => q \notin DOMAIN modelCache'
                /\ (~CacheHit /\ modelFiles[p].kind = "corrupt") =>
                       r = NoModel /\ modelCache' = modelCache]_vars

C18_Witness ==
    /\ lastOp = "get"
    /\ lastCall.profile = "alpha"
    /\ lastCall.loaded = {} /\ lastCall.statted = {}
    /\ lastCall.ret = [id |-> 3, version |-> 2]
    /\ modelCache = [p \in {"alpha"} |-> [id |-> 3, version |-> 2]]
    /\ modelFiles["alpha"] = CorruptFile

----------------------------------------------------------------------------
(* orchestrator.py: append_log                                             *)

MaxAppends == 3     \* append_log calls

\* json.dump of an event record and json.load of it: a str is a JSON string,
\* None is null
JsonValue(x) ==
    IF x = Absent THEN [t |-> "null", v |-> ""] ELSE [t |-> "string", v |-> x]
PyValue(j) == IF j.t = "null" THEN Absent ELSE j.v
JsonEntry(r) ==
    [task |-> JsonValue(r.task), action |-> JsonValue(r.action),
     timestamp |-> r.timestamp]
PyEntry(j) ==
    [task |-> PyValue(j.task), action |-> PyValue(j.action),
     timestamp |-> j.timestamp]
JsonDump(entries) == [k \in 1..Len(entries) |-> JsonEntry(entries[k])]
JsonLoad(text) == [k \in 1..Len(text) |-> PyEntry(text[k])]

\* event records as run_actions returns them
R_push == Record(Task("t1", S_every_minute, "push_telemetry", TRUE), 1)
R_replan == Record(Task(Absent, NoCron, "replan_isr_sweep", FALSE), 1)
R_old == Record(Task("t0", NoCron, "push_telemetry", FALSE), 0)
EventLists == {<<>>, <<R_push>>, <<R_replan>>, <<R_push, R_replan>>}

\* the file before the orchestrator's first call
StartLogs ==
    { NoLogFile, LogArray(<<>>), LogArray(JsonDump(<<R_old>>)),
      [kind |-> "corrupt", entries |-> <<>>],
      [kind |-> "object", entries |-> <<>>] }

\* an append_log that writes only the new events
LogAfterAppendOverwrites(file, evs) ==
    IF evs = <<>> THEN file ELSE LogArray(JsonDump(evs))

\* append_log(events): the file after a call that returns
LogAfterAppend(file, evs) ==
    IF evs = <<>> THEN file
    ELSE LET log_entries ==
                 IF file.kind = "array" THEN JsonLoad(file.entries)
                 ELSE <<>>
         IN  LogArray(JsonDump(log_entries \o evs))

\* the log file as the orchestrator finds it
StartLog ==
    /\ lastAppend = "idle"
    /\ logFile' \in StartLogs
    /\ logStart' = logFile'
    /\ lastAppend' = "none"
    /\ UNCHANGED <<passed, logWrites, restOfLog>>

\* append_log(events) returns
AppendLog ==
    /\ lastAppend # "idle"
    /\ Len(passed) < MaxAppends
    /\ \E evs \in EventLists :
          /\ evs = <<>> \/ logFile.kind # "object"
          /\ logFile' = LogAfterAppend(logFile, evs)
          /\ logWrites' = IF evs = <<>> THEN logWrites ELSE logWrites + 1
          /\ passed' = Append(passed, evs)
    /\ lastAppend' = "returned"
    /\ UNCHANGED <<logStart, restOfLog>>

\* append_log(events) on a file holding a JSON object: log_entries.extend
\* raises before the file is opened for writing
AppendLogRaises ==
    /\ lastAppend # "idle"
    /\ Len(passed) < MaxAppends
    /\ logFile.kind = "object"
    /\ \E evs \in EventLists \ {<<>>} : passed' = Append(passed, evs)
    /\ lastAppend' = "raised"
    /\ UNCHANGED <<logFile, logStart, logWrites, restOfLog>>

LogInit ==
    /\ PipeIdle
    /\ CallIdle
    /\ SideIdle

LogNext == StartLog \/ AppendLog \/ AppendLogRaises

SpecLog == LogInit /\ [][LogNext]_vars

\* the lists of s one after the other
RECURSIVE Concat(_)
Concat(s) == IF s = <<>> THEN <<>> ELSE Head(s) \o Concat(Tail(s))

NonEmptyCalls == Cardinality({k \in 1..Len(passed) : passed[k] # <<>>})

(* C19: append-only orchestration log.  Starting from an absent log file or
   one holding a JSON array, after any sequence of append_log calls the file
   holds the entries it started with followed by the concatenation of all
   passed event lists in call order; the file was written once per call
   with a non-empty list, so a call with an empty list neither creates nor
   modifies it. *)
C19_AppendOnly ==
    logStart.kind \in {"absent", "array"} =>
        /\ logWrites = NonEmptyCalls
        /\ IF NonEmptyCalls = 0 THEN logFile = logStart
           ELSE /\ logFile.kind = "array"
                /\ JsonLoad(logFile.entries)
                       = JsonLoad(logStart.entries) \o Concat(passed)

C19_Witness ==
    /\ logStart = LogArray(JsonDump(<<R_old>>))
    /\ passed = << <<R_push, R_replan>>, <<>>, <<R_replan>> >>
    /\ logWrites = 2
    /\ JsonLoad(logFile.entries) = <<R_old, R_push, R_replan, R_replan>>

----------------------------------------------------------------------------
(* tasks/add_task.py: load_schedule, main, save_schedule                   *)

MaxAdds == 3        \* add_task invocations

S_nightly == <<"n","i","g","h","t","l","y">>
S_push_telemetry ==
    <<"p","u","s","h","_","t","e","l","e","m","e","t","r","y">>

\* a task of the schedule: its three values
SchedTask(name, cron, action) ==
    [name |-> name, cron |-> cron, action |-> action]

\* yaml.safe_dump and yaml.safe_load of a task
DumpTask(t) ==
    SchedTask(YamlDumpScalar(t.name), YamlDumpScalar(t.cron),
              YamlDumpScalar(t.action))
LoadTask(d) ==
    SchedTask(YamlLoadScalar(d.name), YamlLoadScalar(d.cron),
              YamlLoadScalar(d.action))

\* a schedule document, loaded
Sched(hasTasks, extra, ts) ==
    [hasTasks |-> hasTasks, extra |-> extra, tasks |-> ts]

\* load_schedule(): {'tasks': []} for an absent or empty file
LoadSchedule(file) ==
    IF file.kind \in {"absent", "empty"} THEN Sched(TRUE, FALSE, <<>>)
    ELSE Sched(file.hasTasks, file.extra,
               [k \in 1..Len(file.tasks) |-> LoadTask(file.tasks[k])])

\* save_schedule(data): the file written
SaveSchedule(data) ==
    [kind |-> "doc", hasTasks |-> data.hasTasks, extra |-> data.extra,
     tasks |-> [k \in 1..Len(data.tasks) |-> DumpTask(data.tasks[k])]]

\* a duplicate test that looks at the first task only
NameExistsFirstOnly(ts, name) ==
    ts # <<>> /\ ts[1].name = Str(name)

\* the loop of main: some task's name equals args.name
NameExists(ts, name) ==
    \E k \in 1..Len(ts) : ts[k].name = Str(name)

\* the schedule files add_task starts from: task names pairwise distinct
HandTasks ==
    << [name   |-> [quoted |-> FALSE, text |-> S_nightly],
        cron   |-> [quoted |-> TRUE,  text |-> S_hourly],
        action |-> [quoted |-> FALSE, text |-> S_push_telemetry]],
       [name   |-> [quoted |-> FALSE, text |-> S_one],
        cron   |-> [quoted |-> TRUE,  text |-> S_every_minute],
        action |-> [quoted |-> FALSE, text |-> S_push_telemetry]] >>
StartSchedules ==
    { NoSchedule,
      [kind |-> "empty", hasTasks |-> FALSE, extra |-> FALSE, tasks |-> <<>>],
      [kind |-> "doc", hasTasks |-> FALSE, extra |-> TRUE, tasks |-> <<>>],
      [kind |-> "doc", hasTasks |-> TRUE, extra |-> FALSE, tasks |-> <<>>],
      [kind |-> "doc", hasTasks |-> TRUE, extra |-> FALSE,
       tasks |-> SubSeq(HandTasks, 1, 1)],
      [kind |-> "doc", hasTasks |-> TRUE, extra |-> TRUE,
       tasks |-> HandTasks] }

\* the arguments of an invocation
NameArgs == {S_nightly, S_one, S_a}
CronArgs == {S_every_minute, S_hourly}
ActionArgs == {S_push_telemetry}

\* the schedule file as add_task finds it
StartSchedule ==
    /\ lastAdd.result = "none"
    /\ adds = 0
    /\ schedFile' \in StartSchedules
    /\ lastAdd' = [lastAdd EXCEPT !.result = "start"]
    /\ UNCHANGED <<adds, restOfSched>>

\* main: one invocation of add_task
AddTask ==
    /\ lastAdd.result # "none"
    /\ adds < MaxAdds
    /\ \E name \in NameArgs, cron \in CronArgs, action \in ActionArgs :
          LET sched == LoadSchedule(schedFile)
          IN  IF NameExists(sched.tasks, name)
              THEN /\ schedFile' = schedFile
                   /\ lastAdd' = [name |-> name, cron |-> cron,
                                  action |-> action, result |-> "exists"]
              ELSE /\ schedFile' = SaveSchedule(
                          Sched(TRUE, sched.extra,
                                Append(sched.tasks,
                                       SchedTask(Str(name), Str(cron),
                                                 Str(action)))))
                   /\ lastAdd' = [name |-> name, cron |-> cron,
                                  action |-> action, result |-> "added"]
    /\ adds' = adds + 1
    /\ UNCHANGED restOfSched

SchedInit ==
    /\ PipeIdle
    /\ CallIdle
    /\ SideIdle

SchedNext == StartSchedule \/ AddTask

SpecSched == SchedInit /\ [][SchedNext]_vars

\* the tasks a schedule file holds
TasksOf(file) == LoadSchedule(file).tasks

\* the names of the tasks are pairwise distinct
DistinctNames(ts) ==
    \A j, k \in 1..Len(ts) : ts[j].name = ts[k].name => j = k

(* C20: unique task names.  An add_task invocation whose name is the name of
   a task of the schedule leaves the schedule file unchanged; every other
   invocation appends exactly one task {name, cron, action} at the end and
   leaves the existing tasks unchanged and in order; task names that were
   pairwise distinct before the invocation are pairwise distinct after
   it. *)
C20_UniqueNames ==
    [][adds' = adds + 1 =>
           LET old == TasksOf(schedFile)
               new == TasksOf(schedFile')
               a   == lastAdd'
           IN  /\ IF \E k \in 1..Len(old) : old[k].name = Str(a.name)
                  THEN schedFile' = schedFile
                  ELSE new = Append(old, SchedTask(Str(a.name), Str(a.cron),
                                                   Str(a.action)))
               /\ DistinctNames(old) => DistinctNames(new)]_vars

C20_Witness ==
    /\ adds = 3
    /\ lastAdd.result = "exists"
    /\ lastAdd.name = S_one
    /\ Len(TasksOf(schedFile)) = 4
    /\ TasksOf(schedFile)[2].name = Num(1)
    /\ TasksOf(schedFile)[3].name = Str(S_a)
    /\ TasksOf(schedFile)[4].name = Str(S_one)
    /\ DistinctNames(TasksOf(schedFile))

----------------------------------------------------------------------------
(* The output file when parse_stream ends, normally or by an exception.    *)

\* parse_stream has ended: returned, or left by an exception of load_plugins
\* or of the loop
Ended == pc \in {"done", "raised", "aborted"}

\* the output holds the header and every row of every input event
Complete ==
    /\ Iterable(docKind)
    /\ \A i \in 1..Len(events) : events[i].obj
    /\ out = <<HeaderRow>> \o FlatRows(Len(events))

(* C21: all-or-nothing sink write.  When a parse_stream invocation has
   ended, the output is complete (the header followed by every row of every
   input event) or is what it was before the call; a call that fails at some
   event does not leave the header and the rows of the events before it. *)
C21_AllOrNothing == Ended => (Complete \/ out = outBefore)

----------------------------------------------------------------------------
(* merge_config and its template argument.                                 *)

(* C22: merge_config leaves its template argument unchanged.  After a
   merge_config call, for any arguments, the template (with its nested
   node_config_override) equals its value before the call. *)
C22_TemplateUnchanged ==
    mpc \in {"merged", "saved", "read"} => template = tmplAtCall

----------------------------------------------------------------------------
(* run_actions: the records of the wrappers gather runs concurrently.      *)

\* task i gets a record: its action has a handler and should_run says yes
Triggered(i) ==
    /\ tasks[i].action \in ACTION_MAP
    /\ ShouldRun(croniterOk, tasks[i].cron, tasks[i].due)

\* the triggered tasks among the first n, in schedule order
RECURSIVE TriggeredUpTo(_)
TriggeredUpTo(n) ==
    IF n = 0 THEN <<>>
    ELSE IF Triggered(n) THEN Append(TriggeredUpTo(n - 1), n)
    ELSE TriggeredUpTo(n - 1)

(* C23: record order under concurrent execution.  When run_actions returns,
   its list holds exactly one record per triggered task, in the order of the
   tasks in the schedule (none lost, none twice), each with the task's name
   and action and all with the one timestamp taken when run_actions
   started. *)
C23_RecordOrder ==
    opc = "returned" =>
        LET ran == TriggeredUpTo(Len(tasks))
        IN  /\ Len(runEvents) = Len(ran)
            /\ \A k \in 1..Len(ran) :
                   /\ runEvents[k].task = tasks[ran[k]].name
                   /\ runEvents[k].action = tasks[ran[k]].action
                   /\ runEvents[k].timestamp = now
            /\ invoked = ran

C23_Witness ==
    /\ opc = "returned"
    /\ Len(tasks) = 3
    /\ tasks[1] = Task("t3", <<>>, "push_telemetry", FALSE)
    /\ tasks[2] = Task("t7", S_every_minute, "reboot", TRUE)
    /\ tasks[3] = Task("t1", NoCron, "replan_isr_sweep", FALSE)
    /\ Len(runEvents) = 2
    /\ runEvents[1].task = "t3" /\ runEvents[2].task = "t1"
    /\ runEvents[1].timestamp = runEvents[2].timestamp
    /\ clock > now + 4

====
